---- MODULE Spec2Model ----
(***************************************************************************)
(* Model of hyper-evm-sync: the CLI dispatcher (src/src/cli.rs,            *)
(* Cli::execute), the sync orchestrator with its Reader and Processor      *)
(* tasks around a tokio mpsc channel of capacity 1 (run_from_state), and   *)
(* the token map builder (src/src/evm_map.rs).                             *)
(*                                                                         *)
(* Block numbers are scaled down: READ_LIMIT and TESTNET_BLOCK_THRESHOLD   *)
(* keep their role but not their magnitude, and every block number stays   *)
(* far below 2^64, so the additions of cli.rs:168 and cli.rs:171 never     *)
(* wrap.  The subtraction of cli.rs:139 does underflow on small numbers    *)
(* and is modelled with both outcomes a build can produce.                 *)
(***************************************************************************)
EXTENDS Integers, Sequences, FiniteSets, TLC

\* ---------------------------------------------------------------- bounds
MaxBlock == 8          \* largest end_block / start_block an input may carry
MaxChunkSize == 3      \* largest chunk_size an input may carry
MaxTokens == 3         \* longest token list of a metadata response

\* ------------------------------------------------------ program constants
READ_LIMIT == 2
TESTNET_BLOCK_THRESHOLD == 3
CHANNEL_CAPACITY == 1

None == "None"

Min(a, b) == IF a <= b THEN a ELSE b

\* ------------------------------------------------------------- variables
VARIABLES
    \* parsed command line (Commands, cli.rs:51-84)
    command,            \* "SyncFromState" | "NextBlockNumber"
    chain,              \* "Mainnet" | "Testnet"
    state_fln,          \* NoFile or Some(state file)
    is_abci,
    snapshot_dir,       \* None or "dir"
    chunk_size,
    end_block,
    abci_state_fln,     \* NoFile or Some(state file)
    evm_state_fln,      \* NoFile or Some(state file)
    metadata,           \* answer of the metadata endpoint: [ok, tokens]
    \* run_from_state locals
    pc,                 \* position of the main task
    result,             \* "running" | "Ok" | "Err:<kind>" | "Panic"
    system_address_map, \* local erc20_contract_to_system_address (cli.rs:119)
    start_block,
    state,              \* the State: [cursor, applied]
    \* channel (cli.rs:146)
    queue,              \* windows buffered in the channel
    \* Processor task (cli.rs:148-163)
    ppc,                \* "idle" | "hash" | "recv" | "apply" | "done" | "panicked"
    pwin,               \* the window the Processor dequeued and is applying
    pnext,              \* position in pwin of the next block to apply
    \* Reader task (cli.rs:165-173)
    rpc,                \* "idle" | "loop" | "send" | "done" | "read_panicked" | "send_panicked"
    cur_block,
    rwin,               \* the window read_blocks returned, not yet sent
    \* observable effects
    io,                 \* [meta, files, hashes]: requests issued, files read, digests reported
    snapshots,          \* block numbers after which a snapshot was written
    sent,               \* <<first, last>> of every window enqueued, in order
    stdout,             \* block numbers printed by next-block-number
    stderr,             \* task failures reported after the join
    second_map          \* result of resolving the token map a second time

vars == << command, chain, state_fln, is_abci, snapshot_dir, chunk_size, end_block,
           abci_state_fln, evm_state_fln, metadata,
           pc, result, system_address_map, start_block, state,
           queue, ppc, pwin, pnext, rpc, cur_block, rwin,
           io, snapshots, sent, stdout, stderr, second_map >>

args == << command, chain, state_fln, is_abci, snapshot_dir, chunk_size, end_block,
           abci_state_fln, evm_state_fln, metadata >>

\* ================================================================ evm_map.rs
\* A u64 is kept as four 16-bit limbs, most significant first, so that the
\* whole 64-bit range of SpotToken.index is representable.
U64(a, b, c, d) == << a, b, c, d >>

Indices ==
    { U64(0, 0, 0, 0), U64(0, 0, 0, 5), U64(0, 0, 0, 256), U64(0, 0, 1, 2),
      U64(258, 772, 1286, 1800), U64(65535, 65535, 65535, 65535) }

Contracts == { "c1", "c2" }

\* SpotToken (evm_map.rs:12-17): index and optional evmContract
SpotToken == [ index : Indices, evm_contract : Contracts \cup { None } ]

\* least significant byte first
to_le_bytes(x) ==
    << x[4] % 256, x[4] \div 256, x[3] % 256, x[3] \div 256,
       x[2] % 256, x[2] \div 256, x[1] % 256, x[1] \div 256 >>

\* u64::to_be_bytes: most significant byte first
to_be_bytes(x) ==
    << x[1] \div 256, x[1] % 256, x[2] \div 256, x[2] % 256,
       x[3] \div 256, x[3] % 256, x[4] \div 256, x[4] % 256 >>

\* evm_map.rs:43-46; byte k of the address is element k+1 of the sequence
system_address(index) ==
    LET zero == [ k \in 1..20 |-> 0 ]
        a0   == [ zero EXCEPT ![1] = 32 ]
        be   == to_be_bytes(index)
    IN  [ k \in 1..20 |-> IF k >= 13 THEN be[k - 12] ELSE a0[k] ]

\* an insert that keeps the value already stored under the key
map_insert_keep_first(map, key, value) ==
    [ k \in (DOMAIN map) \cup { key } |-> IF k \in DOMAIN map THEN map[k] ELSE value ]

\* BTreeMap::insert (evm_map.rs:48): the new value replaces an old one
map_insert(map, key, value) ==
    [ k \in (DOMAIN map) \cup { key } |-> IF k = key THEN value ELSE map[k] ]

\* the loop of evm_map.rs:40-50 from token k on
RECURSIVE map_tokens(_, _, _)
map_tokens(tokens, k, map) ==
    IF k > Len(tokens) THEN map
    ELSE LET token == tokens[k]
         IN  IF token.evm_contract # None
             THEN map_tokens(tokens, k + 1,
                             map_insert(map, token.evm_contract, system_address(token.index)))
             ELSE map_tokens(tokens, k + 1, map)

EmptyMap == [ k \in {} |-> 0 ]

\* evm_map.rs:38-52 on a fetched SpotMeta
erc20_contract_to_system_address(tokens) == map_tokens(tokens, 1, EmptyMap)

RECURSIVE SeqsUpTo(_, _)
SeqsUpTo(S, n) ==
    IF n = 0 THEN { << >> }
    ELSE LET shorter == SeqsUpTo(S, n - 1)
         IN  shorter \cup { Append(q, x) : q \in { r \in shorter : Len(r) = n - 1 }, x \in S }

\* ================================================================ state files
\* A state file holds a next block number in one of two formats, or is corrupt.
StateFiles ==
    [ fmt : { "abci", "evm" }, next_block : 0..MaxBlock ]
        \cup { [ fmt |-> "corrupt", next_block |-> 0 ] }

\* Option<String> of a file argument: << >> is None, << f >> is Some(f)
NoFile == << >>
Some(f) == << f >>
OptionalFiles == { NoFile } \cup { Some(f) : f \in StateFiles }

Err == << >>

\* the State: database (the blocks applied to it, in order) and cursor
NewState(next_block) == [ cursor |-> next_block, applied |-> << >> ]

\* fs::read_abci_state: (next block number, State) or an error
read_abci_state(fln) ==
    IF fln.fmt = "abci"
    THEN << fln.next_block, NewState(fln.next_block) >> ELSE Err

\* fs::read_evm_state: (next block number, State) or an error
read_evm_state(fln) ==
    IF fln.fmt = "evm"
    THEN << fln.next_block, NewState(fln.next_block) >> ELSE Err

\* InMemoryDB::genesis() paired with block 1 (cli.rs:130)
genesis == NewState(1)

\* ================================================================ blocks
\* last block of the chunk that block n lies in
chunk_end(n, size) == ((n + size - 1) \div size) * size

Range(first, last) == [ k \in 1..(last - first + 1) |-> first + k - 1 ]

\* fs::read_blocks: [first, last] split into sub-batches that end at a chunk
\* boundary or at last, each paired with its last block number
RECURSIVE read_blocks(_, _, _)
read_blocks(first, last, size) ==
    IF first > last THEN << >>
    ELSE LET stop == Min(last, chunk_end(first, size))
         IN  << << stop, Range(first, stop) >> >> \o read_blocks(stop + 1, last, size)

\* the blocks of a window, in order
RECURSIVE window_blocks(_)
window_blocks(win) ==
    IF win = << >> THEN << >> ELSE Head(win)[2] \o window_blocks(Tail(win))

\* the window end without the clamp to end_block
last_block_in_chunk_unclamped(cur) == cur + READ_LIMIT - 1

\* the window end one block too far
last_block_in_chunk_too_long(cur) == Min(end_block, cur + READ_LIMIT)

\* cli.rs:167, with < in place of <=
in_range_exclusive(cur) == cur < end_block

\* cli.rs:167: the Reader's loop condition
in_range(cur) == cur <= end_block

\* cli.rs:168
last_block_in_chunk(cur) == Min(end_block, cur + READ_LIMIT - 1)

\* ================================================================ inputs
Chains == { "Mainnet", "Testnet" }

\* the metadata answers a sync run may get: a failure or a token list
FetchFailed == [ ok |-> FALSE, tokens |-> << >> ]
SyncMetadata ==
    { FetchFailed,
      [ ok |-> TRUE, tokens |-> << [ index |-> U64(0, 0, 0, 5), evm_contract |-> "c1" ] >> ] }

NoState == NewState(0)

Idle ==
    /\ pc = "start" /\ result = "running"
    /\ system_address_map = EmptyMap /\ second_map = EmptyMap
    /\ start_block = 0 /\ state = NoState
    /\ queue = << >>
    /\ ppc = "idle" /\ pwin = << >> /\ pnext = 1
    /\ rpc = "idle" /\ cur_block = 0 /\ rwin = << >>
    /\ io = [ meta |-> 0, files |-> 0, hashes |-> 0 ]
    /\ snapshots = {} /\ sent = << >> /\ stdout = << >> /\ stderr = {}

InitSync ==
    /\ command = "SyncFromState"
    /\ chain \in Chains
    /\ state_fln \in OptionalFiles
    /\ is_abci \in BOOLEAN
    /\ snapshot_dir \in { None, "dir" }
    /\ chunk_size \in 1..MaxChunkSize
    /\ end_block \in 0..MaxBlock
    /\ metadata \in SyncMetadata
    /\ abci_state_fln = NoFile /\ evm_state_fln = NoFile

InitNextBlockNumber ==
    /\ command = "NextBlockNumber"
    /\ abci_state_fln \in OptionalFiles
    /\ evm_state_fln \in OptionalFiles
    /\ chain = "Mainnet" /\ state_fln = NoFile /\ is_abci = FALSE
    /\ snapshot_dir = None /\ chunk_size = 1 /\ end_block = 0
    /\ metadata = FetchFailed

Init == (InitSync \/ InitNextBlockNumber) /\ Idle

\* ================================================================ Cli::execute
Finish(res) == pc' = "done" /\ result' = res

\* Commands::NextBlockNumber (cli.rs:96-104)
NextBlockNumber ==
    /\ pc = "start" /\ command = "NextBlockNumber"
    /\ IF abci_state_fln # NoFile
       THEN LET r == read_abci_state(abci_state_fln[1])
            IN  /\ io' = [ io EXCEPT !.files = @ + 1 ]
                /\ IF r = Err
                   THEN Finish("Err:ReadState") /\ UNCHANGED stdout
                   ELSE Finish("Ok") /\ stdout' = Append(stdout, r[1])
       ELSE IF evm_state_fln # NoFile
       THEN LET r == read_evm_state(evm_state_fln[1])
            IN  /\ io' = [ io EXCEPT !.files = @ + 1 ]
                /\ IF r = Err
                   THEN Finish("Err:ReadState") /\ UNCHANGED stdout
                   ELSE Finish("Ok") /\ stdout' = Append(stdout, r[1])
       ELSE Finish("Err:NoFile") /\ UNCHANGED << io, stdout >>
    /\ UNCHANGED << args, system_address_map, start_block, state, queue, ppc, pwin, pnext,
                    rpc, cur_block, rwin, snapshots, sent, stderr, second_map >>

\* ================================================================ run_from_state
pipeline == << queue, ppc, pwin, pnext, rpc, cur_block, rwin, snapshots, sent >>

\* a failed request answered with an empty map instead of an error
FetchSpotMeta_ignore_failure ==
    /\ pc = "start" /\ command = "SyncFromState"
    /\ io' = [ io EXCEPT !.meta = @ + 1 ]
    /\ system_address_map' = erc20_contract_to_system_address(metadata.tokens)
    /\ pc' = "resolve" /\ UNCHANGED result
    /\ UNCHANGED << args, start_block, state, pipeline, stdout, stderr, second_map >>

\* cli.rs:119: one request to the metadata endpoint, `?` on its failure
FetchSpotMeta ==
    /\ pc = "start" /\ command = "SyncFromState"
    /\ io' = [ io EXCEPT !.meta = @ + 1 ]
    /\ IF metadata.ok
       THEN /\ system_address_map' = erc20_contract_to_system_address(metadata.tokens)
            /\ pc' = "resolve" /\ UNCHANGED result
       ELSE Finish("Err:FetchMeta") /\ UNCHANGED system_address_map
    /\ UNCHANGED << args, start_block, state, pipeline, stdout, stderr, second_map >>

\* the threshold test letting the block just below the threshold through
threshold_ok_off_by_one(start) == ~ (chain = "Testnet" /\ start + 1 < TESTNET_BLOCK_THRESHOLD)

\* cli.rs:132-136 on the resolved start block
threshold_ok(start) == ~ (chain = "Testnet" /\ start < TESTNET_BLOCK_THRESHOLD)

\* cli.rs:120-136: the start block and State, from the state file or genesis
ResolveState ==
    /\ pc = "resolve"
    /\ IF state_fln # NoFile
       THEN LET r == IF is_abci THEN read_abci_state(state_fln[1])
                                ELSE read_evm_state(state_fln[1])
            IN  /\ io' = [ io EXCEPT !.files = @ + 1 ]
                /\ IF r = Err
                   THEN Finish("Err:ReadState") /\ UNCHANGED << start_block, state >>
                   ELSE /\ start_block' = r[1] /\ state' = r[2]
                        /\ IF threshold_ok(r[1])
                           THEN pc' = "progress" /\ UNCHANGED result
                           ELSE Finish("Err:TestnetBelowThreshold")
       ELSE /\ UNCHANGED io
            /\ IF chain = "Testnet"
               THEN Finish("Err:TestnetNeedsSnapshot") /\ UNCHANGED << start_block, state >>
               ELSE /\ start_block' = 1 /\ state' = genesis
                    /\ IF threshold_ok(1)
                       THEN pc' = "progress" /\ UNCHANGED result
                       ELSE Finish("Err:TestnetBelowThreshold")
    /\ UNCHANGED << args, system_address_map, pipeline, stdout, stderr, second_map >>

\* cli.rs:138-145: end_block - start_block + 1 in u64; without overflow checks
\* the difference wraps and only the progress bar sees it
NewProgressBar ==
    /\ pc = "progress"
    /\ pc' = "spawn"
    /\ UNCHANGED << args, result, system_address_map, start_block, state, pipeline,
                    io, stdout, stderr, second_map >>

\* cli.rs:139 with overflow checks: end_block - start_block panics when it underflows
ProgressBarOverflow ==
    /\ pc = "progress"
    /\ end_block < start_block
    /\ Finish("Panic")
    /\ UNCHANGED << args, system_address_map, start_block, state, pipeline,
                    io, stdout, stderr, second_map >>

\* the tasks spawned with the Processor going straight to its receive loop
Spawn_without_hash ==
    /\ pc = "spawn"
    /\ queue' = << >>
    /\ ppc' = "recv"
    /\ rpc' = "loop" /\ cur_block' = start_block
    /\ pc' = "join"
    /\ UNCHANGED << args, result, system_address_map, start_block, state, pwin, pnext, rwin,
                    io, snapshots, sent, stdout, stderr, second_map >>

\* cli.rs:146-173: the channel is created and both tasks are spawned;
\* the Reader's cursor starts at start_block (cli.rs:166)
Spawn ==
    /\ pc = "spawn"
    /\ queue' = << >>
    /\ ppc' = "hash"
    /\ rpc' = "loop" /\ cur_block' = start_block
    /\ pc' = "join"
    /\ UNCHANGED << args, result, system_address_map, start_block, state, pwin, pnext, rwin,
                    io, snapshots, sent, stdout, stderr, second_map >>

\* ---------------------------------------------------------------- Processor
main == << pc, result, system_address_map, start_block, stdout, stderr, second_map >>

\* the task's JoinHandle is ready: the closure returned or panicked
processor_finished == ppc \in { "done", "panicked" }
reader_failed == rpc \in { "read_panicked", "send_panicked" }
reader_finished == rpc = "done" \/ reader_failed

\* rx lives in the Processor closure and goes when the task ends
rx_dropped == processor_finished

\* a sender that outlives a clean return of the Reader
tx_dropped_only_on_failure == reader_failed

\* a sender that outlives a panic of the Reader
tx_dropped_only_on_return == rpc = "done"

\* tx lives in the Reader closure and goes when the task ends
tx_dropped == reader_finished

\* cli.rs:149-151: the digest of the starting state, computed in the Processor task
ProcessorHash ==
    /\ ppc = "hash"
    /\ io' = [ io EXCEPT !.hashes = @ + 1 ]
    /\ ppc' = "recv"
    /\ UNCHANGED << args, main, state, queue, pwin, pnext, rpc, cur_block, rwin,
                    snapshots, sent >>

\* a receive that gives up as soon as the sender is gone, buffered windows or not
ProcessorRecv_closed_first ==
    /\ ppc = "recv"
    /\ IF tx_dropped
       THEN /\ ppc' = "done"
            /\ UNCHANGED << queue, pwin, pnext >>
       ELSE /\ queue # << >>
            /\ pwin' = Head(queue) /\ queue' = Tail(queue) /\ pnext' = 1
            /\ ppc' = IF window_blocks(Head(queue)) = << >> THEN "recv" ELSE "apply"
    /\ UNCHANGED << args, main, state, rpc, cur_block, rwin, io, snapshots, sent >>

\* a receive that does not wait: an empty channel ends the loop
ProcessorRecv_nonblocking ==
    /\ ppc = "recv"
    /\ IF queue # << >>
       THEN /\ pwin' = Head(queue) /\ queue' = Tail(queue) /\ pnext' = 1
            /\ ppc' = IF window_blocks(Head(queue)) = << >> THEN "recv" ELSE "apply"
       ELSE /\ ppc' = "done"
            /\ UNCHANGED << queue, pwin, pnext >>
    /\ UNCHANGED << args, main, state, rpc, cur_block, rwin, io, snapshots, sent >>

\* cli.rs:152: rx.recv() yields the oldest window, or None once the channel is
\* empty and the sender is gone
ProcessorRecv ==
    /\ ppc = "recv"
    /\ IF queue # << >>
       THEN /\ pwin' = Head(queue) /\ queue' = Tail(queue) /\ pnext' = 1
            /\ ppc' = IF window_blocks(Head(queue)) = << >> THEN "recv" ELSE "apply"
       ELSE /\ tx_dropped
            /\ ppc' = "done"
            /\ UNCHANGED << queue, pwin, pnext >>
    /\ UNCHANGED << args, main, state, rpc, cur_block, rwin, io, snapshots, sent >>

\* State::apply on one block: the cursor must equal the block number
apply_ok(st, block) == st.cursor = block

apply(st, block) == [ cursor |-> st.cursor + 1, applied |-> Append(st.applied, block) ]

\* the snapshot rule after block n is committed
snapshot_due(n) == snapshot_dir # None /\ n % chunk_size = 0

\* the digest taken again after every window
ProcessorApply_rehash ==
    /\ ppc = "apply"
    /\ LET blocks == window_blocks(pwin)
           block  == blocks[pnext]
       IN  IF apply_ok(state, block)
           THEN /\ state' = apply(state, block)
                /\ snapshots' = IF snapshot_due(block) THEN snapshots \cup { block }
                                                      ELSE snapshots
                /\ IF pnext = Len(blocks)
                   THEN ppc' = "hash" /\ pwin' = << >> /\ pnext' = 1
                   ELSE ppc' = "apply" /\ pnext' = pnext + 1 /\ UNCHANGED pwin
                /\ UNCHANGED queue
           ELSE /\ ppc' = "panicked" /\ pwin' = << >> /\ pnext' = 1 /\ queue' = << >>
                /\ UNCHANGED << state, snapshots >>
    /\ UNCHANGED << args, main, rpc, cur_block, rwin, io, sent >>

\* cli.rs:153-161, run_blocks, one block at a time
ProcessorApply ==
    /\ ppc = "apply"
    /\ LET blocks == window_blocks(pwin)
           block  == blocks[pnext]
       IN  IF apply_ok(state, block)
           THEN /\ state' = apply(state, block)
                /\ snapshots' = IF snapshot_due(block) THEN snapshots \cup { block }
                                                      ELSE snapshots
                /\ IF pnext = Len(blocks)
                   THEN ppc' = "recv" /\ pwin' = << >> /\ pnext' = 1
                   ELSE ppc' = "apply" /\ pnext' = pnext + 1 /\ UNCHANGED pwin
                /\ UNCHANGED queue
           ELSE /\ ppc' = "panicked" /\ pwin' = << >> /\ pnext' = 1 /\ queue' = << >>
                /\ UNCHANGED << state, snapshots >>
    /\ UNCHANGED << args, main, rpc, cur_block, rwin, io, sent >>

\* run_blocks fails on a block (execution or snapshot write): the task panics,
\* rx and the windows still buffered are dropped
ProcessorPanic ==
    /\ ppc = "apply"
    /\ ppc' = "panicked" /\ pwin' = << >> /\ pnext' = 1 /\ queue' = << >>
    /\ UNCHANGED << args, main, state, rpc, cur_block, rwin, io, snapshots, sent >>

\* ---------------------------------------------------------------- Reader
\* cli.rs:167-169: the loop test and read_blocks on the next window
ReaderRead ==
    /\ rpc = "loop"
    /\ in_range(cur_block)
    /\ rwin' = read_blocks(cur_block, last_block_in_chunk(cur_block), chunk_size)
    /\ rpc' = "send"
    /\ UNCHANGED << args, main, state, queue, ppc, pwin, pnext, cur_block, io,
                    snapshots, sent >>

\* read_blocks fails on a block it cannot read: the task panics, tx is dropped
ReaderReadPanic ==
    /\ rpc = "loop"
    /\ in_range(cur_block)
    /\ rpc' = "read_panicked"
    /\ UNCHANGED << args, main, state, queue, ppc, pwin, pnext, cur_block, rwin, io,
                    snapshots, sent >>

\* a send that never waits for a free slot
ReaderSend_unbounded ==
    /\ rpc = "send"
    /\ ~ rx_dropped
    /\ queue' = Append(queue, rwin)
    /\ sent' = Append(sent, << cur_block, last_block_in_chunk(cur_block) >>)
    /\ cur_block' = last_block_in_chunk(cur_block) + 1
    /\ rwin' = << >>
    /\ rpc' = "loop"
    /\ UNCHANGED << args, main, state, ppc, pwin, pnext, io, snapshots >>

\* a send that also moves the State's cursor
ReaderSend_touches_state ==
    /\ rpc = "send"
    /\ ~ rx_dropped
    /\ Len(queue) < CHANNEL_CAPACITY
    /\ queue' = Append(queue, rwin)
    /\ sent' = Append(sent, << cur_block, last_block_in_chunk(cur_block) >>)
    /\ cur_block' = last_block_in_chunk(cur_block) + 1
    /\ state' = [ state EXCEPT !.cursor = last_block_in_chunk(cur_block) + 1 ]
    /\ rwin' = << >>
    /\ rpc' = "loop"
    /\ UNCHANGED << args, pc, result, system_address_map, start_block, stdout, stderr,
                    second_map, ppc, pwin, pnext, io, snapshots >>

\* cli.rs:170-171: send waits for a free slot, then the cursor moves on
ReaderSend ==
    /\ rpc = "send"
    /\ ~ rx_dropped
    /\ Len(queue) < CHANNEL_CAPACITY
    /\ queue' = Append(queue, rwin)
    /\ sent' = Append(sent, << cur_block, last_block_in_chunk(cur_block) >>)
    /\ cur_block' = last_block_in_chunk(cur_block) + 1
    /\ rwin' = << >>
    /\ rpc' = "loop"
    /\ UNCHANGED << args, main, state, ppc, pwin, pnext, io, snapshots >>

\* cli.rs:170: send returns an error once the receiver is gone, unwrap panics
ReaderSendPanic ==
    /\ rpc = "send"
    /\ rx_dropped
    /\ rpc' = "send_panicked" /\ rwin' = << >>
    /\ UNCHANGED << args, main, state, queue, ppc, pwin, pnext, cur_block, io,
                    snapshots, sent >>

\* cli.rs:167: the range is exhausted, the task returns and tx is dropped
ReaderExit ==
    /\ rpc = "loop"
    /\ ~ in_range(cur_block)
    /\ rpc' = "done"
    /\ UNCHANGED << args, main, state, queue, ppc, pwin, pnext, cur_block, rwin, io,
                    snapshots, sent >>

\* ---------------------------------------------------------------- join
\* cli.rs:175-182: both handles are awaited, failures are printed, Ok(()) returned
Join ==
    /\ pc = "join"
    /\ processor_finished /\ reader_finished
    /\ stderr' = (IF ppc = "panicked" THEN { "Processor failed" } ELSE {})
                     \cup (IF reader_failed THEN { "Reader failed" } ELSE {})
    /\ Finish("Ok")
    /\ UNCHANGED << args, system_address_map, start_block, state, pipeline, io, stdout,
                    second_map >>

Next ==
    \/ NextBlockNumber
    \/ FetchSpotMeta
    \/ ResolveState
    \/ NewProgressBar
    \/ ProgressBarOverflow
    \/ Spawn
    \/ ProcessorHash
    \/ ProcessorRecv
    \/ ProcessorApply
    \/ ProcessorPanic
    \/ ReaderRead
    \/ ReaderReadPanic
    \/ ReaderSend
    \/ ReaderSendPanic
    \/ ReaderExit
    \/ Join

Spec == Init /\ [][Next]_vars

\* the steps of each task; the runtime keeps polling every task that can move
MainStep ==
    \/ NextBlockNumber \/ FetchSpotMeta \/ ResolveState
    \/ NewProgressBar \/ ProgressBarOverflow \/ Spawn \/ Join

ProcessorStep == ProcessorHash \/ ProcessorRecv \/ ProcessorApply \/ ProcessorPanic

ReaderStep ==
    ReaderRead \/ ReaderReadPanic \/ ReaderSend \/ ReaderSendPanic \/ ReaderExit

Fairness == WF_vars(MainStep) /\ WF_vars(ProcessorStep) /\ WF_vars(ReaderStep)

SpecFair == Init /\ [][Next]_vars /\ Fairness

\* ================================================================ token map alone
\* The token map builder on every token list up to MaxTokens, applied twice
\* to the same metadata.
MapMetadata == { [ ok |-> TRUE, tokens |-> t ] : t \in SeqsUpTo(SpotToken, MaxTokens) }

InitMap ==
    /\ command = "SyncFromState"
    /\ chain = "Mainnet" /\ state_fln = NoFile /\ is_abci = FALSE
    /\ snapshot_dir = None /\ chunk_size = 1 /\ end_block = 0
    /\ abci_state_fln = NoFile /\ evm_state_fln = NoFile
    /\ metadata \in MapMetadata
    /\ Idle

\* erc20_contract_to_system_address on the fetched metadata (evm_map.rs:38-52)
ResolveMap ==
    /\ pc = "start"
    /\ system_address_map' = erc20_contract_to_system_address(metadata.tokens)
    /\ io' = [ io EXCEPT !.meta = @ + 1 ]
    /\ pc' = "resolved"
    /\ UNCHANGED << args, result, start_block, state, pipeline, stdout, stderr, second_map >>

\* a second resolution from the same metadata
ResolveMapAgain ==
    /\ pc = "resolved"
    /\ second_map' = erc20_contract_to_system_address(metadata.tokens)
    /\ io' = [ io EXCEPT !.meta = @ + 1 ]
    /\ pc' = "resolved_twice"
    /\ UNCHANGED << args, result, system_address_map, start_block, state, pipeline,
                    stdout, stderr >>

NextMap == ResolveMap \/ ResolveMapAgain

SpecMap == InitMap /\ [][NextMap]_vars

\* ================================================================ properties
sync == command = "SyncFromState"

\* both tasks returned without a panic
tasks_clean == ppc = "done" /\ rpc = "done"

\* a task has been spawned
pipeline_started == ppc # "idle" \/ rpc # "idle"

IsPrefix(p, q) == Len(p) <= Len(q) /\ \A k \in 1..Len(p) : p[k] = q[k]

\* C1: the blocks applied are always an initial part of start_block..end_block
\* in increasing order, and when both tasks have finished without failure
\* (start_block <= end_block) they are exactly start_block..end_block, each once.
C1_AppliedExactlyInOrder ==
    /\ IsPrefix(state.applied, Range(start_block, end_block))
    /\ (tasks_clean /\ start_block <= end_block)
           => state.applied = Range(start_block, end_block)

C1_Witness ==
    /\ tasks_clean /\ result = "Ok"
    /\ Len(sent) >= 3 /\ chunk_size = 2
    /\ state.applied = Range(start_block, end_block)

\* blocks resident in memory: the window the Reader holds between read_blocks
\* and the end of send, the windows in the channel, the window the Processor
\* dequeued and is applying
RECURSIVE queued_blocks(_)
queued_blocks(q) ==
    IF q = << >> THEN 0 ELSE Len(window_blocks(Head(q))) + queued_blocks(Tail(q))

Resident == Len(window_blocks(rwin)) + queued_blocks(queue) + Len(window_blocks(pwin))

expected_snapshots ==
    IF snapshot_dir = None THEN {}
    ELSE { n \in start_block..end_block : n % chunk_size = 0 }

\* C3: a snapshot is only ever written after a block n of start_block..end_block
\* that is a multiple of chunk_size, and only with a snapshot directory; when
\* both tasks have finished without failure the snapshots written are exactly
\* those, whatever the read windows were.
C3_SnapshotsAtChunkBoundaries ==
    /\ snapshots \subseteq expected_snapshots
    /\ tasks_clean => snapshots = expected_snapshots

C3_Witness ==
    /\ tasks_clean /\ snapshot_dir # None
    /\ chunk_size = 3 /\ start_block = 1 /\ end_block = 8
    /\ snapshots = { 3, 6 }

\* C4 as stated: a task never fails because its sibling failed; after a
\* Processor failure the Reader does not fail at its send.
C4_NoFailurePropagation == rpc # "send_panicked"

\* C4 amended: a Reader failure does not make the Processor fail: a Processor
\* that ends without failure after a Reader failure has applied every window
\* that was enqueued.  A Processor failure does reach the Reader: the Reader
\* fails at a send only when the Processor has failed, and never completes a
\* send after that.
C4_ReaderFailureOnly ==
    /\ (rpc = "read_panicked" /\ ppc = "done")
           => (queue = << >> /\ state.cursor = cur_block)
    /\ rpc = "send_panicked" => ppc = "panicked"
    /\ ppc = "panicked" => queue = << >>

C4_Witness ==
    /\ rpc = "read_panicked" /\ ppc = "done"
    /\ Len(sent) >= 2 /\ state.cursor = cur_block

\* C5: the run returns Ok only if both tasks were joined without error.
C5_OkOnlyIfBothTasksClean ==
    (sync /\ pc = "done" /\ result = "Ok") => tasks_clean

\* C6: sync-from-state on Testnet without a state file ends with the
\* configuration error, having issued no metadata request, read no file,
\* spawned no task and applied no block.
C6_TestnetNoFileFailsBeforeIO ==
    (sync /\ chain = "Testnet" /\ state_fln = NoFile /\ pc = "done")
        => /\ result = "Err:TestnetNeedsSnapshot"
           /\ io.meta = 0 /\ io.files = 0
           /\ ~ pipeline_started /\ state.applied = << >>

\* C7: on Testnet no task is spawned and no block is applied unless the state
\* came from a state file with a start block at or above the threshold; a
\* Testnet run whose state file starts below the threshold ends in an error.
C7_TestnetGuard ==
    (sync /\ chain = "Testnet")
        => /\ (pipeline_started \/ state.applied # << >> \/ pc \in { "progress", "spawn", "join" })
                  => (state_fln # NoFile /\ start_block >= TESTNET_BLOCK_THRESHOLD)
           /\ (pc = "done" /\ state_fln # NoFile
                  /\ state_fln[1].next_block < TESTNET_BLOCK_THRESHOLD)
                  => (result \notin { "Ok", "running", "Panic" } /\ ~ pipeline_started)

C7_Witness ==
    /\ sync /\ chain = "Testnet" /\ tasks_clean
    /\ start_block = TESTNET_BLOCK_THRESHOLD /\ Len(state.applied) >= 3

\* C8: next-block-number succeeds only when exactly one of the two file
\* arguments is given; with none or both it fails with the configuration
\* error and prints nothing.
C8_ExactlyOneFile ==
    (command = "NextBlockNumber" /\ pc = "done")
        => /\ result = "Ok" => ((abci_state_fln = NoFile) # (evm_state_fln = NoFile))
           /\ ((abci_state_fln = NoFile) = (evm_state_fln = NoFile))
                  => (result = "Err:NoFile" /\ stdout = << >>)

has_layout(addr, i) ==
    /\ DOMAIN addr = 1..20
    /\ \A k \in 1..20 : addr[k] \in 0..255
    /\ addr[1] = 32
    /\ \A k \in 2..12 : addr[k] = 0
    /\ \A j \in 1..4 : addr[12 + 2 * j - 1] * 256 + addr[12 + 2 * j] = i[j]

carriers(tokens, c) == { k \in 1..Len(tokens) : tokens[k].evm_contract = c }

Max(S) == CHOOSE x \in S : \A y \in S : y <= x

\* C11: the keys of the map are exactly the contract addresses carried by
\* some token, and the entry of a contract address holds the system address
\* of the last token in the list that carries it, not that of an earlier
\* token with another index.
C11_KeysAndLastTokenWins ==
    LET tokens == metadata.tokens
    IN  pc \in { "resolved", "resolved_twice" }
        => /\ DOMAIN system_address_map
                  = { tokens[k].evm_contract : k \in 1..Len(tokens) } \ { None }
           /\ \A c \in DOMAIN system_address_map :
                  LET last == Max(carriers(tokens, c))
                  IN  /\ has_layout(system_address_map[c], tokens[last].index)
                      /\ \A k \in carriers(tokens, c) :
                             tokens[k].index # tokens[last].index
                                 => ~ has_layout(system_address_map[c], tokens[k].index)

C11_Witness ==
    /\ pc = "resolved"
    /\ Len(metadata.tokens) = 3
    /\ metadata.tokens[1].evm_contract = "c2" /\ metadata.tokens[1].index = U64(0, 0, 0, 5)
    /\ metadata.tokens[2].evm_contract = None
    /\ metadata.tokens[3].evm_contract = "c2" /\ metadata.tokens[3].index = U64(0, 0, 1, 2)
    /\ DOMAIN system_address_map = { "c2" }
    /\ system_address_map["c2"][18] = 1

\* the last block of the last window enqueued
last_sent == sent[Len(sent)][2]

\* C12: once the tasks are spawned with start_block <= end_block, under fair
\* scheduling either a task fails or the run completes: the window ending at
\* end_block has been sent, the Reader has returned (closing the channel), the
\* Processor has seen the closed, empty channel and returned, the join is Ok.
C12_EventuallyCompleted ==
    (pc = "join" /\ start_block <= end_block)
        ~> \/ ppc = "panicked" \/ reader_failed
           \/ /\ pc = "done" /\ result = "Ok"
              /\ rpc = "done" /\ ppc = "done" /\ queue = << >>
              /\ sent # << >> /\ last_sent = end_block

C12_Witness ==
    /\ pc = "done" /\ result = "Ok"
    /\ rpc = "done" /\ ppc = "done" /\ queue = << >>
    /\ Len(sent) = 2 /\ last_sent = end_block

\* the blocks of the windows enqueued so far, in the order of the sends
RECURSIVE sent_blocks(_)
sent_blocks(ws) ==
    IF ws = << >> THEN << >>
    ELSE Range(Head(ws)[1], Head(ws)[2]) \o sent_blocks(Tail(ws))

\* C13: when the Processor has returned without failure the channel is closed
\* and empty, and the blocks applied are those of every window the Reader
\* enqueued, in the order of the sends; while it runs, what it has applied
\* and holds is an initial part of them.
C13_FifoAndDrained ==
    /\ IsPrefix(state.applied, sent_blocks(sent))
    /\ ppc = "done" => /\ tx_dropped /\ queue = << >> /\ pwin = << >>
                       /\ state.applied = sent_blocks(sent)

C13_Witness ==
    /\ ppc = "done" /\ Len(sent) = 4
    /\ state.applied = sent_blocks(sent)

\* C14: the windows enqueued tile start_block..end_block from start_block on,
\* each with 1..READ_LIMIT blocks and none beyond end_block; the Reader's
\* cursor is the block after the last window enqueued, a window read and not
\* yet sent starts at the cursor, and when the Reader has returned the last
\* window ended at end_block.
C14_WindowsPartitionRange ==
    pipeline_started
        => /\ \A k \in 1..Len(sent) :
                  /\ sent[k][1] = IF k = 1 THEN start_block ELSE sent[k - 1][2] + 1
                  /\ sent[k][1] <= sent[k][2]
                  /\ sent[k][2] - sent[k][1] + 1 <= READ_LIMIT
                  /\ sent[k][2] <= end_block
           /\ cur_block = IF sent = << >> THEN start_block ELSE last_sent + 1
           /\ rpc = "send"
                  => /\ window_blocks(rwin)
                            = Range(cur_block, last_block_in_chunk(cur_block))
                     /\ Len(window_blocks(rwin)) \in 1..READ_LIMIT
                     /\ rwin[Len(rwin)][1] <= end_block
           /\ (rpc = "done" /\ start_block <= end_block)
                  => (sent # << >> /\ last_sent = end_block)

C14_Witness ==
    /\ rpc = "done" /\ Len(sent) = 3
    /\ sent[1][1] = start_block /\ sent[3][1] = end_block /\ sent[3][2] = end_block

\* C15: the channel never holds more than one window; no send completes in a
\* step taken while the channel is full, and a Processor waiting on an empty
\* channel whose sender is alive stays waiting.
C15_ChannelBlocks ==
    [][ /\ Len(queue') <= CHANNEL_CAPACITY
        /\ Len(queue) = CHANNEL_CAPACITY => sent' = sent
        /\ (ppc = "recv" /\ queue = << >> /\ ~ tx_dropped) => ppc' = "recv"
      ]_vars

C15_Witness ==
    /\ rpc = "send" /\ Len(queue) = CHANNEL_CAPACITY /\ ppc = "hash"
    /\ Len(sent) = 1

\* C16: the digest is computed at most once, in a step that finds no block
\* applied and leaves the State as it is; a block is applied only after it,
\* and a run that started the pipeline ends with exactly one digest.
C16_DigestOnceOnStartState ==
    [][ /\ io'.hashes # io.hashes
            => /\ io.hashes = 0 /\ io'.hashes = 1
               /\ state.applied = << >> /\ state' = state
               /\ state.cursor = start_block
        /\ state'.applied # state.applied => io.hashes = 1
        /\ (pc' = "done" /\ (ppc' # "idle" \/ rpc' # "idle")) => io'.hashes = 1
      ]_vars

C16_Witness ==
    /\ sync /\ pc = "done" /\ io.hashes = 1
    /\ Len(state.applied) >= 4 /\ state_fln # NoFile

\* C17: a sync run issues exactly one metadata request; when it fails the run
\* ends with that error, no task spawned and no block applied; once the
\* pipeline runs the map is not changed and no further request is issued.
C17_MapFetchedOnce ==
    [][ sync =>
          /\ io'.meta <= 1
          /\ pc' # "start" => io'.meta = 1
          /\ (pc' # "start" /\ ~ metadata.ok)
                 => /\ pc' = "done" /\ result' = "Err:FetchMeta"
                    /\ ppc' = "idle" /\ rpc' = "idle" /\ state'.applied = << >>
          /\ pipeline_started
                 => /\ system_address_map' = system_address_map
                    /\ io'.meta = io.meta
                    /\ system_address_map
                           = erc20_contract_to_system_address(metadata.tokens)
      ]_vars

C17_Witness ==
    /\ sync /\ pc = "done" /\ result = "Ok" /\ io.meta = 1
    /\ DOMAIN system_address_map = { "c1" } /\ Len(sent) >= 2

\* the Reader's side of the pipeline
reader_vars == << rpc, cur_block, rwin, sent >>

\* C18: once the tasks run, the State and the snapshots change only in a step
\* of the Processor applying a block, which leaves the Reader's variables
\* alone; a step that changes the Reader's variables leaves the State, the
\* snapshots and the Processor's window alone, and touches the Processor
\* only through the channel.
C18_StateOwnedByProcessor ==
    [][ pipeline_started =>
          /\ (state' # state \/ snapshots' # snapshots)
                 => /\ ppc = "apply" /\ reader_vars' = reader_vars
                    /\ queue' = queue
          /\ reader_vars' # reader_vars
                 => /\ state' = state /\ snapshots' = snapshots
                    /\ ppc' = ppc /\ pwin' = pwin /\ pnext' = pnext
                    /\ (queue' = queue \/ queue' = Append(queue, rwin))
      ]_vars

C18_Witness ==
    /\ rpc = "send" /\ ppc = "apply" /\ pnext = 2
    /\ Len(sent) = 2 /\ Len(state.applied) = 3

\* C19: under fair scheduling the join always completes, whatever fails: a
\* run that has spawned its tasks reaches the end of run_from_state with both
\* tasks finished.
C19_JoinCompletes ==
    pc = "join" ~> (pc = "done" /\ processor_finished /\ reader_finished)

C19_Witness ==
    /\ pc = "done" /\ ppc = "panicked" /\ rpc = "send_panicked"
    /\ stderr = { "Processor failed", "Reader failed" }

\* C20: a run whose resolved start_block is greater than end_block, past the
\* checks of the start state, enqueues no window, applies no block and ends
\* with Ok.
C20_EmptyRangeCompletes ==
    (sync /\ pc = "done" /\ result \in { "Ok", "Panic" } /\ start_block > end_block)
        => /\ result = "Ok"
           /\ sent = << >> /\ state.applied = << >>

====
